---- MODULE Spec2Model ----
(***************************************************************************)
(* Model of Api/notion-movie-fill.ts: a webhook handler that reads a       *)
(* Notion page title, queries OMDb, and writes derived properties back.    *)
(*                                                                         *)
(* Text is modelled as a sequence of UTF-16 code units, one sequence       *)
(* element per unit, so that Len is JavaScript's String.length.  The       *)
(* Hangul syllables and the ellipsis of the source (each one code unit)    *)
(* are written with the romanised names below.  Text whose length the      *)
(* code never inspects may hold a multi-unit literal as one element.       *)
(***************************************************************************)
EXTENDS Integers, Sequences, FiniteSets, TLC

VARIABLES
    OMDB,        \* process.env.OMDB_API_KEY (module constant of the process)
    tz,          \* sign of the host's UTC offset (used by Date)
    req,         \* the Request: [body, header]
    pc,          \* position of handler() at its awaits
    pageId,      \* const pageId
    page,        \* const page (result of notion.pages.retrieve)
    title,       \* const title
    json,        \* const json in fetchFromOMDb
    props,       \* const props
    wire,        \* properties serialised into the pages.update request body
    calls,       \* outbound calls issued so far, in order
    responses,   \* Responses returned by handler()
    plotArg,     \* argument of a direct summarizeKorean call
    summaryRet,  \* its return value
    sumPc        \* position of that call

vars == <<OMDB, tz, req, pc, pageId, page, title, json, props, wire, calls,
          responses, plotArg, summaryRet, sumPc>>

handlerVars == <<OMDB, tz, req, pc, pageId, page, title, json, props, wire,
                 calls, responses>>

sumVars == <<plotArg, summaryRet, sumPc>>

-----------------------------------------------------------------------------
(* Bounds of the model *)

\* longest title property (number of rich-text fragments) the page read returns
MaxFragments == 2
\* plots are drawn with cleaned lengths up to SummaryLimit + MaxOver
MaxOver == 5

-----------------------------------------------------------------------------
(* JavaScript values *)

\* a possibly-undefined string value
Undefined == [def |-> FALSE, s |-> <<>>]
Str(s) == [def |-> TRUE, s |-> s]

\* truthiness of a string-or-undefined value
Truthy(v) == v.def /\ v.s # <<>>

\* a || b on string-or-undefined values
OrElse(a, b) == IF Truthy(a) THEN a ELSE b

\* code units matched by \s and stripped by String.prototype.trim
WhiteSpace == {" ", "\t", "\n"}

IsSpace(c) == c \in WhiteSpace

RECURSIVE TrimStart(_)
TrimStart(s) ==
    IF s # <<>> /\ IsSpace(Head(s)) THEN TrimStart(Tail(s)) ELSE s

RECURSIVE TrimEnd(_)
TrimEnd(s) ==
    IF s # <<>> /\ IsSpace(s[Len(s)]) THEN TrimEnd(SubSeq(s, 1, Len(s) - 1)) ELSE s

\* String.prototype.trim
Trim(s) == TrimEnd(TrimStart(s))

\* Array.prototype.join(sep) on a list of strings
RECURSIVE Join(_, _)
Join(list, sep) ==
    IF list = <<>> THEN <<>>
    ELSE IF Len(list) = 1 THEN list[1]
    ELSE list[1] \o sep \o Join(Tail(list), sep)

Range(f) == {f[i] : i \in DOMAIN f}

Repeat(c, n) == [i \in 1..n |-> c]

-----------------------------------------------------------------------------
(* summarizeKorean *)

HA == "HA"              \* U+D558
DA == "DA"              \* U+B2E4
IP == "IP"              \* U+C785
NI == "NI"              \* U+B2C8
ELLIPSIS == "ELLIPSIS"  \* U+2026
HADA == <<HA, DA>>
IMNIDA == <<IP, NI, DA>>

\* cleaned.length > 360
SummaryLimit == 360
\* cleaned.slice(0, 356)
SummaryKeep == 356

\* the 28-unit sentence returned for an empty plot; it ends "...mot-ha-da."
InsufficientInfo ==
    <<"jak", "pum", " ", "jeong", "bo", "ga", " ", "bu", "jok", HA, "yeo", " ",
      "gan", "dan", " ", "yo", "yak", "eul", " ", "je", "gong", HA, "ji", " ",
      "mot", HA, DA, ".">>

Terminators == {".", "!", "?"}

\* marks a slot of Flatten that holds no code unit
Nothing == ""

\* the replacement pieces of a global replace, one per code unit of the
\* subject and each at most w long, concatenated
Flatten(pieces, w) ==
    SelectSeq([x \in 1..(Len(pieces) * w) |->
                 LET piece == pieces[((x - 1) \div w) + 1]
                     k == ((x - 1) % w) + 1
                 IN  IF k <= Len(piece) THEN piece[k] ELSE Nothing],
              LAMBDA c : c # Nothing)

\* .replace(/\s+/g, " "): the first unit of each run of white space becomes
\* a space, the rest of the run goes
Collapse(s) ==
    Flatten([i \in 1..Len(s) |->
               IF ~IsSpace(s[i]) THEN <<s[i]>>
               ELSE IF i = 1 \/ ~IsSpace(s[i - 1]) THEN <<" ">>
               ELSE <<>>], 1)

\* s[j] lies in the white space that directly follows a terminator
AfterTerminator(s, j) ==
    /\ IsSpace(s[j])
    /\ \E k \in 1..(j - 1) :
         s[k] \in Terminators /\ \A m \in (k + 1)..j : IsSpace(s[m])

\* .replace(/[.!?]\s+/g, "<HADA>. "): a match starts at a terminator that
\* white space follows and takes the whole run
ReplaceTerminators(s) ==
    Flatten([i \in 1..Len(s) |->
               IF s[i] \in Terminators /\ i < Len(s) /\ IsSpace(s[i + 1])
               THEN HADA \o <<".", " ">>
               ELSE IF AfterTerminator(s, i) THEN <<>>
               ELSE <<s[i]>>], 4)

ImnidaAt(s, i) == i >= 1 /\ i + 2 <= Len(s) /\ SubSeq(s, i, i + 2) = IMNIDA

\* .replace(/<IMNIDA>/g, "<HADA>"): matches cannot overlap
ReplaceImnida(s) ==
    Flatten([i \in 1..Len(s) |->
               IF ImnidaAt(s, i) THEN HADA
               ELSE IF ImnidaAt(s, i - 1) \/ ImnidaAt(s, i - 2) THEN <<>>
               ELSE <<s[i]>>], 2)

\* const cleaned
Cleaned(plot) == ReplaceImnida(ReplaceTerminators(Collapse(plot)))

\* String.prototype.slice(0, n)
Slice0(s, n) == SubSeq(s, 1, IF n < Len(s) THEN n ELSE Len(s))

\* const out, keeping SummaryKeep + 1 units instead of SummaryKeep
TruncateKeepsLimit(cleaned) ==
    IF Len(cleaned) > SummaryLimit
    THEN Slice0(cleaned, SummaryKeep + 1) \o <<ELLIPSIS>>
    ELSE cleaned

Truncate(cleaned) ==
    IF Len(cleaned) > SummaryLimit
    THEN Slice0(cleaned, SummaryKeep) \o <<ELLIPSIS>>
    ELSE cleaned

EndsWith(s, suffix) ==
    Len(s) >= Len(suffix) /\ SubSeq(s, Len(s) - Len(suffix) + 1, Len(s)) = suffix

\* /<HADA>[.?!<ELLIPSIS>]?$/.test(out)
EndsWithMarker(out) ==
    \/ EndsWith(out, HADA)
    \/ \E c \in {".", "?", "!", ELLIPSIS} : EndsWith(out, HADA \o <<c>>)

summarizeKorean(plot) ==
    IF plot = <<>> THEN InsufficientInfo
    ELSE LET out == Truncate(Cleaned(plot))
         IN  IF EndsWithMarker(out) THEN out ELSE out \o HADA \o <<".">>

\* plots passed to summarizeKorean directly: a run of letters, a middle part
\* exercising each rewrite, and a second run, with cleaned lengths on both
\* sides of SummaryKeep and SummaryLimit
PlotMiddles ==
    { <<>>, HADA, HADA \o <<".">>, HADA \o <<"?", " ">>, <<".", " ", "\n">>,
      <<"!", "\t">>, IMNIDA, <<" ", " ">>, IMNIDA \o <<".", " ">> }

PlotLeads == {0, 1} \cup ((SummaryKeep - 4) .. (SummaryLimit + MaxOver))

PlotTrails == {0, 2, 5}

Plots ==
    {<<>>} \cup
    { Repeat("a", n) \o m \o Repeat("b", k) :
        n \in PlotLeads, m \in PlotMiddles, k \in PlotTrails }

InitSummarize ==
    /\ plotArg \in Plots
    /\ summaryRet = <<>>
    /\ sumPc = "call"

\* one call of summarizeKorean(plotArg)
Summarize ==
    /\ sumPc = "call"
    /\ summaryRet' = summarizeKorean(plotArg)
    /\ sumPc' = "return"
    /\ UNCHANGED <<plotArg, handlerVars>>

-----------------------------------------------------------------------------
(* featuresFromData, getTitle, property builders, parseReleasedToISO *)

\* Array.prototype.slice(0, n) is Slice0 on lists as well
featuresFromData(director, genres) ==
    LET c1 == IF director # <<>> THEN <<<<"yeonchul: ">> \o director>> ELSE <<>>
        c2 == IF Len(genres) > 0
              THEN <<<<"jangreu gyeolhap: ">> \o Join(Slice0(genres, 3), <<",", " ">>)>>
              ELSE <<>>
        base == c1 \o c2 \o <<<<"rideumgam inneun jeongae">>>>
    IN  Join(base, <<" ", "/", " ">>)

\* String.prototype.split(","): the pieces between commas, from index i on,
\* `cur` being the piece read so far
RECURSIVE SplitComma(_, _, _)
SplitComma(s, i, cur) ==
    IF i > Len(s) THEN <<cur>>
    ELSE IF s[i] = "," THEN <<cur>> \o SplitComma(s, i + 1, <<>>)
    ELSE SplitComma(s, i + 1, Append(cur, s[i]))

\* (json.Genre || "").split(",").map(trim).filter(Boolean)
GenreList(genre) ==
    LET parts == SplitComma(genre, 1, <<>>)
        trimmed == [i \in 1..Len(parts) |-> Trim(parts[i])]
    IN  SelectSeq(trimmed, LAMBDA g : g # <<>>)

\* prop?.title?.map(t => t?.plain_text).join(""): join writes undefined as ""
JoinedPlainText(frags) ==
    Join([i \in 1..Len(frags) |->
            IF frags[i].plain_text.def THEN frags[i].plain_text.s ELSE <<>>], <<>>)

getTitle(notionPage) ==
    LET hasTitle == notionPage.prop = "title"
        frags == notionPage.title
        first == IF hasTitle /\ Len(frags) > 0 THEN frags[1].plain_text ELSE Undefined
        joined == IF hasTitle THEN Str(JoinedPlainText(frags)) ELSE Undefined
        text == OrElse(OrElse(first, joined), Str(<<>>))
    IN  Trim(text.s)

asRichText(content) == [kind |-> "rich_text", content |-> content]

asMultiSelect(names) == [kind |-> "multi_select", names |-> names]

\* the value JavaScript calls undefined, as a property value
UndefinedValue == [kind |-> "undefined"]

\* a string | null holding an ISO date
Null == [isNull |-> TRUE, ymd |-> <<>>]
Iso(ymd) == [isNull |-> FALSE, ymd |-> ymd]

asDate(iso) == IF ~iso.isNull THEN [kind |-> "date", start |-> iso.ymd] ELSE UndefinedValue

\* new Date(released): the local civil date of the strings the engine's
\* parser accepts, or NaN
InvalidDate == [valid |-> FALSE, ymd |-> <<>>]
DateOf(released) ==
    IF released = <<"20 Jun 1988">> THEN [valid |-> TRUE, ymd |-> <<1988, 6, 20>>]
    ELSE IF released = <<"01 Mar 2024">> THEN [valid |-> TRUE, ymd |-> <<2024, 3, 1>>]
    ELSE IF released = <<"01 Jan 2000">> THEN [valid |-> TRUE, ymd |-> <<2000, 1, 1>>]
    ELSE InvalidDate

IsLeap(y) == (y % 4 = 0 /\ y % 100 # 0) \/ y % 400 = 0

DaysIn(y, m) ==
    IF m = 2 THEN (IF IsLeap(y) THEN 29 ELSE 28)
    ELSE IF m \in {4, 6, 9, 11} THEN 30 ELSE 31

PrevDay(ymd) ==
    LET y == ymd[1]
        m == ymd[2]
        d == ymd[3]
    IN  IF d > 1 THEN <<y, m, d - 1>>
        ELSE IF m > 1 THEN <<y, m - 1, DaysIn(y, m - 1)>>
        ELSE <<y - 1, 12, 31>>

\* d.toISOString(): local midnight expressed in UTC; east of Greenwich this
\* is the evening of the previous day
toISOString(ymd, zone) ==
    IF zone > 0 THEN [date |-> PrevDay(ymd), time |-> "evening"]
    ELSE [date |-> ymd, time |-> IF zone = 0 THEN "midnight" ELSE "morning"]

parseReleasedToISO(released, zone) ==
    LET d == IF released # <<>> THEN DateOf(released) ELSE InvalidDate
    IN  IF released # <<>> /\ d.valid
        THEN Iso(toISOString(d.ymd, zone).date)   \* .slice(0, 10)
        ELSE Null

-----------------------------------------------------------------------------
(* handler and fetchFromOMDb *)

\* messages of the errors the source throws
MsgMissingPageId == <<"page_id nurak (JSON body.page_id ttoneun X-Notion-Page-Id header sayong)">>
MsgEmptyTitle == <<"Notion page-ui 'jemok' sokseong-i bieo isseum">>
MsgMissingKey == <<"OMDB_API_KEY nurak">>
MsgNotFound == <<"OMDb not found">>
\* message of the TypeError raised by reading a property of null
MsgNullBody == <<"Cannot read properties of null (reading 'page_id')">>
MsgNullJson == <<"Cannot read properties of null (reading 'Response')">>

\* rejections of the awaited outbound operations
RetrieveErrors == {<<"Could not find page">>, <<"API token is invalid">>}
FetchErrors == {<<"fetch failed">>}
JsonErrors == {<<"Unexpected token < in JSON at position 0">>}
UpdateErrors == {<<"jemok is not a property that exists">>, <<"Request timed out">>}

\* names of the Notion properties, in the order of the object literal
PGamdok == "gamdok"
PJulgeori == "julgeori"
PTeukjing == "teukjing"
PJangreu == "jangreu"
PGaebongil == "gaebongil"
PJejak == "jejak/staff"
PSangtae == "sangtae"

PageIdTexts == {<<>>, <<" ">>, <<"p", "1">>, <<" ", "p", "2", "\t">>}

\* request bodies: text that req.json() rejects, the JSON value null, and
\* objects with or without page_id
Bodies ==
    {[kind |-> "unparsable", page_id |-> Undefined],
     [kind |-> "null", page_id |-> Undefined],
     [kind |-> "object", page_id |-> Undefined]}
    \cup {[kind |-> "object", page_id |-> Str(t)] : t \in PageIdTexts}

\* req.headers.get("x-notion-page-id"): a string, or null (here Undefined)
Headers == {Undefined} \cup {Str(t) : t \in PageIdTexts}

Requests == [body : Bodies, header : Headers]

ApiKeys == {Undefined, Str(<<>>), Str(<<"k">>)}

FragmentTexts == {Undefined, Str(<<>>), Str(<<" ">>), Str(<<"D", " ">>), Str(<<"H">>)}

TitleLists ==
    UNION {[1..n -> [plain_text : FragmentTexts]] : n \in 0..MaxFragments}

\* pages notion.pages.retrieve resolves to: without the title property, or
\* with a title of up to MaxFragments fragments
Pages ==
    {[prop |-> "absent", title |-> <<>>]}
    \cup {[prop |-> "title", title |-> t] : t \in TitleLists}

NoJson == [kind |-> "none"]
NullJson == [kind |-> "null"]

ReleasedTexts == {Undefined, Str(<<"N/A">>), Str(<<"20 Jun 1988">>), Str(<<"01 Mar 2024">>),
                  Str(<<"01 Jan 2000">>)}

\* bodies the provider answers with: the not-found sentinel with or without
\* an Error, and found records, sparse or full
NotFoundJsons ==
    {[kind |-> "object", Response |-> "False", Error |-> e, Director |-> Undefined,
      Plot |-> Undefined, Genre |-> Undefined, Released |-> Undefined,
      Writer |-> Undefined, Actors |-> Undefined] :
        e \in {Undefined, Str(<<>>), Str(<<"Movie not found!">>)}}

FoundJsons ==
    {[kind |-> "object", Response |-> "True", Error |-> Undefined, Director |-> Undefined,
      Plot |-> Undefined, Genre |-> Undefined, Released |-> r,
      Writer |-> Undefined, Actors |-> Undefined] : r \in ReleasedTexts}
    \cup
    {[kind |-> "object", Response |-> "True", Error |-> Undefined,
      Director |-> Str(<<"J">>),
      Plot |-> Str(<<"A", ".", " ", "B">>),
      Genre |-> Str(<<"A", ",", " ", "T", ",", ",", "C", ",", "D">>),
      Released |-> r,
      Writer |-> Str(<<"W">>), Actors |-> Str(<<"X">>)] : r \in ReleasedTexts}

Jsons == {NullJson} \cup NotFoundJsons \cup FoundJsons

Call(api) == [api |-> api, result |-> "pending", reason |-> <<>>]

\* the last call issued settles
Settle(result, reason) ==
    [calls EXCEPT ![Len(calls)] = [@ EXCEPT !.result = result, !.reason = reason]]

\* new Response(JSON.stringify(body), { status })
Response(body, status) == [status |-> status, body |-> body]

\* let body = {}; try { body = await req.json() } catch {}
BodyAfterParse(r) ==
    IF r.body.kind = "unparsable"
    THEN [kind |-> "object", page_id |-> Undefined]
    ELSE r.body

\* a ?? b
Nullish(a, b) == IF a.def THEN a ELSE b

\* body.page_id || (req.headers.get("x-notion-page-id") ?? "").trim()
ResolvePageId(body, header) ==
    OrElse(body.page_id, Str(Trim(Nullish(header, Str(<<>>)).s)))

\* the catch block, with a fixed message instead of e.message
CatchGeneric(message) ==
    /\ responses' = Append(responses,
                           Response([ok |-> FALSE, error |-> <<"Internal error">>], 500))
    /\ pc' = "done"

\* catch (e) { return new Response({ ok: false, error: e.message }, 500) }
Catch(message) ==
    /\ responses' = Append(responses, Response([ok |-> FALSE, error |-> message], 500))
    /\ pc' = "done"

\* the key test of fetchFromOMDb, passing an empty key
KeyUndefined(key) == ~key.def

\* !OMDB
KeyMissing(key) == ~Truthy(key)

\* json.Error, without the fallback
ErrorOnly(j) == IF j.Error.def THEN j.Error.s ELSE <<>>

\* json.Error || "OMDb not found"
NotFoundMessage(j) == OrElse(j.Error, Str(MsgNotFound)).s

\* the record fetchFromOMDb returns
DataOf(j) ==
    [director |-> OrElse(j.Director, Str(<<>>)).s,
     plot |-> OrElse(j.Plot, Str(<<>>)).s,
     genres |-> GenreList(OrElse(j.Genre, Str(<<>>)).s),
     released |-> OrElse(j.Released, Str(<<>>)).s,
     writers |-> OrElse(j.Writer, Str(<<>>)).s,
     actors |-> OrElse(j.Actors, Str(<<>>)).s]

Entry(key, value) == [key |-> key, value |-> value]

\* the object literal, with the crew property left out
PropsWithoutCrew(data, zone) ==
    << Entry(PGamdok, asRichText(data.director)),
       Entry(PJulgeori, asRichText(summarizeKorean(data.plot))),
       Entry(PTeukjing, asRichText(featuresFromData(data.director, data.genres))),
       Entry(PJangreu, asMultiSelect(data.genres)),
       Entry(PGaebongil, asDate(parseReleasedToISO(data.released, zone))) >>

\* const props = { ... }: the entries in insertion order
PropsLiteral(data, zone) ==
    << Entry(PGamdok, asRichText(data.director)),
       Entry(PJulgeori, asRichText(summarizeKorean(data.plot))),
       Entry(PTeukjing, asRichText(featuresFromData(data.director, data.genres))),
       Entry(PJangreu, asMultiSelect(data.genres)),
       Entry(PGaebongil, asDate(parseReleasedToISO(data.released, zone))),
       Entry(PJejak, asRichText(<<"gakbon: ">> \o data.writers \o <<" / chulyeon: ">>
                                \o data.actors)) >>

\* try { props["sangtae"] = { status: { name: "wanryo" } } } catch {}
WithStatus(p) == Append(p, Entry(PSangtae, [kind |-> "status", name |-> "wanryo"]))

\* Object.keys(props)
ObjectKeys(p) == [i \in 1..Len(p) |-> p[i].key]

\* the properties member of the JSON request body the client sends:
\* JSON.stringify leaves out members whose value is undefined
Serialise(p) == SelectSeq(p, LAMBDA e : e.value.kind # "undefined")

InitHandler ==
    /\ OMDB \in ApiKeys
    /\ tz \in {-1, 0, 1}
    /\ req \in Requests
    /\ pc = "start"
    /\ pageId = Undefined
    /\ page = [prop |-> "none", title |-> <<>>]
    /\ title = <<>>
    /\ json = NoJson
    /\ props = <<>>
    /\ wire = <<>>
    /\ calls = <<>>
    /\ responses = <<>>

\* lines 75-81: body, pageId, and the page read issued
Start ==
    /\ pc = "start"
    /\ LET body == BodyAfterParse(req)
       IN  IF body.kind = "null"
           THEN Catch(MsgNullBody) /\ UNCHANGED <<pageId, calls>>
           ELSE /\ pageId' = ResolvePageId(body, req.header)
                /\ IF ~Truthy(pageId')
                   THEN Catch(MsgMissingPageId) /\ UNCHANGED calls
                   ELSE /\ calls' = Append(calls, Call("notion.pages.retrieve"))
                        /\ pc' = "retrieve"
                        /\ UNCHANGED responses
    /\ UNCHANGED <<OMDB, tz, req, page, title, json, props, wire,
                   sumVars>>

\* notion.pages.retrieve rejects and the read is issued again
RetrieveFailsRetries ==
    /\ pc = "retrieve"
    /\ Len(calls) < 3
    /\ \E e \in RetrieveErrors :
         calls' = Append(Settle("error", e), Call("notion.pages.retrieve"))
    /\ UNCHANGED <<OMDB, tz, req, pc, pageId, page, title, json, props, wire, responses,
                   sumVars>>

\* notion.pages.retrieve rejects
RetrieveFails ==
    /\ pc = "retrieve"
    /\ \E e \in RetrieveErrors :
         /\ calls' = Settle("error", e)
         /\ Catch(e)
    /\ UNCHANGED <<OMDB, tz, req, pageId, page, title, json, props, wire,
                   sumVars>>

\* lines 81-34: the page arrives, the title is read, fetchFromOMDb tests the
\* key and issues the GET
RetrieveReturns ==
    /\ pc = "retrieve"
    /\ \E p \in Pages :
         /\ page' = p
         /\ title' = getTitle(p)
         /\ IF title' = <<>>
            THEN Catch(MsgEmptyTitle) /\ calls' = Settle("ok", <<>>)
            ELSE IF KeyMissing(OMDB)
            THEN Catch(MsgMissingKey) /\ calls' = Settle("ok", <<>>)
            ELSE /\ calls' = Append(Settle("ok", <<>>), Call("fetch"))
                 /\ pc' = "fetch"
                 /\ UNCHANGED responses
    /\ UNCHANGED <<OMDB, tz, req, pageId, json, props, wire,
                   sumVars>>

\* fetch(url) rejects
FetchFails ==
    /\ pc = "fetch"
    /\ \E e \in FetchErrors :
         /\ calls' = Settle("error", e)
         /\ Catch(e)
    /\ UNCHANGED <<OMDB, tz, req, pageId, page, title, json, props, wire,
                   sumVars>>

\* fetch(url) resolves; res.json() is awaited
FetchReturns ==
    /\ pc = "fetch"
    /\ calls' = Settle("ok", <<>>)
    /\ pc' = "json"
    /\ UNCHANGED <<OMDB, tz, req, pageId, page, title, json, props, wire, responses,
                   sumVars>>

\* res.json() rejects
JsonFails ==
    /\ pc = "json"
    /\ \E e \in JsonErrors :
         /\ json' = [kind |-> "rejected", reason |-> e]
         /\ Catch(e)
    /\ UNCHANGED <<OMDB, tz, req, pageId, page, title, props, wire, calls,
                   sumVars>>

\* lines 35-106: the body arrives, the sentinel is tested, the properties are
\* built and the update is issued
JsonReturns ==
    /\ pc = "json"
    /\ \E j \in Jsons :
         /\ json' = j
         /\ IF j.kind = "null"
            THEN Catch(MsgNullJson) /\ UNCHANGED <<props, wire, calls>>
            ELSE IF j.Response = "False"
            THEN Catch(NotFoundMessage(j)) /\ UNCHANGED <<props, wire, calls>>
            ELSE /\ props' = WithStatus(PropsLiteral(DataOf(j), tz))
                 /\ wire' = Serialise(props')
                 /\ calls' = Append(calls, Call("notion.pages.update"))
                 /\ pc' = "update"
                 /\ UNCHANGED responses
    /\ UNCHANGED <<OMDB, tz, req, pageId, page, title,
                   sumVars>>

\* notion.pages.update rejects
UpdateFails ==
    /\ pc = "update"
    /\ \E e \in UpdateErrors :
         /\ calls' = Settle("error", e)
         /\ Catch(e)
    /\ UNCHANGED <<OMDB, tz, req, pageId, page, title, json, props, wire,
                   sumVars>>

\* line 108: the update resolves and the handler answers 200
UpdateReturns ==
    /\ pc = "update"
    /\ calls' = Settle("ok", <<>>)
    /\ responses' = Append(responses,
                           Response([ok |-> TRUE, title |-> title, updated |-> ObjectKeys(props)],
                                    200))
    /\ pc' = "done"
    /\ UNCHANGED <<OMDB, tz, req, pageId, page, title, json, props, wire,
                   sumVars>>

handler ==
    \/ Start
    \/ RetrieveFails
    \/ RetrieveReturns
    \/ FetchFails
    \/ FetchReturns
    \/ JsonFails
    \/ JsonReturns
    \/ UpdateFails
    \/ UpdateReturns

Init ==
    /\ InitHandler
    /\ plotArg = <<>>
    /\ summaryRet = <<>>
    /\ sumPc = "off"

Next == handler

Spec == Init /\ [][Next]_vars

\* summarizeKorean called on its own
InitSum ==
    /\ InitSummarize
    /\ OMDB = Undefined
    /\ tz = 0
    /\ req = [body |-> [kind |-> "object", page_id |-> Undefined], header |-> Undefined]
    /\ pc = "off"
    /\ pageId = Undefined
    /\ page = [prop |-> "none", title |-> <<>>]
    /\ title = <<>>
    /\ json = NoJson
    /\ props = <<>>
    /\ wire = <<>>
    /\ calls = <<>>
    /\ responses = <<>>

NextSum == Summarize

SpecSum == InitSum /\ [][NextSum]_vars

-----------------------------------------------------------------------------
(* Properties *)

Failure(message) == Response([ok |-> FALSE, error |-> message], 500)

ApiOrder == <<"notion.pages.retrieve", "fetch", "notion.pages.update">>

Apis == [i \in 1..Len(calls) |-> calls[i].api]

PageRead == page.prop # "none"

Succeeded == responses # <<>> /\ responses[1].status = 200

\* names of the properties in the update request
Written == {wire[i].key : i \in 1..Len(wire)}

\* names in the response's updated list
Reported == Range(responses[1].body.updated)

AlwaysWritten == {PGamdok, PJulgeori, PTeukjing, PJangreu, PJejak}

\* C1: a failure at any step (identifier resolution, page read, title
\* extraction, metadata fetch, update) ends the request with exactly one
\* response, 500 { ok: false, error: <that failure's message> }, and no call
\* is issued after the failing step.
C1_FailFast ==
    /\ Len(responses) <= 1
    /\ (pc = "done") <=> (Len(responses) = 1)
    /\ \A i \in 1..Len(calls) :
         calls[i].result = "error"
            => i = Len(calls) /\ responses = <<Failure(calls[i].reason)>>
    /\ (pc # "start" /\ req.body.kind = "null")
            => responses = <<Failure(MsgNullBody)>> /\ calls = <<>>
    /\ (pc # "start" /\ req.body.kind # "null" /\ ~Truthy(pageId))
            => responses = <<Failure(MsgMissingPageId)>> /\ calls = <<>>
    /\ (PageRead /\ title = <<>>)
            => responses = <<Failure(MsgEmptyTitle)>> /\ Len(calls) = 1
    /\ (PageRead /\ title # <<>> /\ ~Truthy(OMDB))
            => responses = <<Failure(MsgMissingKey)>> /\ Len(calls) = 1
    /\ json.kind = "rejected"
            => responses = <<Failure(json.reason)>> /\ Len(calls) = 2
    /\ json.kind = "null"
            => responses = <<Failure(MsgNullJson)>> /\ Len(calls) = 2
    /\ (json.kind = "object" /\ json.Response = "False")
            => /\ Len(responses) = 1
               /\ responses[1].status = 500
               /\ responses[1].body.ok = FALSE
               /\ Len(calls) = 2

\* the metadata fetch fails after the page read succeeded
C1_Witness ==
    /\ pc = "done"
    /\ Len(calls) = 2
    /\ calls[2].result = "error"
    /\ responses = <<Failure(calls[2].reason)>>

\* C2: the outbound calls are the page read, the provider GET and the page
\* update, in that order, each at most once and each issued only after the
\* one before it succeeded; 200 { ok: true } is answered only after the update
\* was issued and succeeded.
C2_SequentialCalls ==
    /\ Len(calls) <= 3
    /\ Apis = SubSeq(ApiOrder, 1, Len(calls))
    /\ \A i \in 1..(Len(calls) - 1) : calls[i].result = "ok"
    /\ pc = "start" => calls = <<>>
    /\ pc = "retrieve" => Len(calls) = 1 /\ calls[1].result = "pending"
    /\ pc = "fetch" => Len(calls) = 2 /\ calls[2].result = "pending"
    /\ pc = "json" => Len(calls) = 2 /\ calls[2].result = "ok"
    /\ pc = "update" => Len(calls) = 3 /\ calls[3].result = "pending"
    /\ pc = "done" => calls = <<>> \/ calls[Len(calls)].result # "pending"
    /\ \A i \in 1..Len(responses) :
         responses[i].status = 200
            => /\ responses[i].body.ok
               /\ Len(calls) = 3
               /\ calls[3].result = "ok"

C2_Witness ==
    /\ pc = "done"
    /\ Succeeded
    /\ Len(calls) = 3
    /\ \A i \in 1..3 : calls[i].result = "ok"

\* the identifier C3 describes: body.page_id when non-empty, else the
\* trimmed header
C3_Identifier ==
    IF req.body.kind = "object" /\ Truthy(req.body.page_id)
    THEN req.body.page_id.s
    ELSE Trim(Nullish(req.header, Str(<<>>)).s)

\* C3: the page identifier is body.page_id when non-empty, otherwise the
\* trimmed X-Notion-Page-Id header; the request fails with the
\* missing-identifier message exactly when both are empty or absent, and then
\* no outbound call is made.
C3_PageIdResolution ==
    pc # "start" =>
        IF C3_Identifier = <<>>
        THEN responses = <<Failure(MsgMissingPageId)>> /\ calls = <<>>
        ELSE /\ pageId = Str(C3_Identifier)
             /\ calls # <<>>
             /\ responses # <<Failure(MsgMissingPageId)>>

\* C4 as stated: without the provider key the request fails with the
\* missing-credential error and the check comes before any network call, so
\* a request that failed with that error has made no call.
C4_KeyCheckedBeforeAnyCall ==
    (~Truthy(OMDB) /\ responses = <<Failure(MsgMissingKey)>>) => calls = <<>>

\* C4, amended: without the provider key, a request whose page read
\* succeeded with a non-empty title fails with the missing-credential error;
\* the check precedes the provider GET, which is never issued, nor is the
\* update; the Notion page read is the one call already made.
C4_KeyCheckedBeforeProviderCall ==
    ~Truthy(OMDB) =>
        /\ \A i \in 1..Len(calls) : calls[i].api = "notion.pages.retrieve"
        /\ (PageRead /\ title # <<>>)
              => /\ pc = "done"
                 /\ responses = <<Failure(MsgMissingKey)>>
                 /\ Len(calls) = 1
                 /\ calls[1].result = "ok"

C4_Witness ==
    /\ OMDB = Str(<<>>)
    /\ PageRead
    /\ title # <<>>
    /\ responses = <<Failure(MsgMissingKey)>>

\* C5 as stated: a plot whose cleaned text is longer than 360 units has a
\* summary of exactly 357 units ending with the ellipsis.
C5_Length357 ==
    (sumPc = "return" /\ Len(Cleaned(plotArg)) > SummaryLimit)
        => Len(summaryRet) = SummaryKeep + 1 /\ summaryRet[Len(summaryRet)] = ELLIPSIS

\* C5, amended: a plot whose cleaned text is longer than 360 units has a
\* summary that starts with the first 356 units and the ellipsis; it is those
\* 357 units when the kept text ends with the marker, and otherwise is
\* followed by the marker and a period, 360 units in all.
C5_TruncatedSummary ==
    (sumPc = "return" /\ Len(Cleaned(plotArg)) > SummaryLimit) =>
        LET kept == SubSeq(Cleaned(plotArg), 1, SummaryKeep)
        IN  /\ Len(summaryRet) \in {SummaryKeep + 1, SummaryLimit}
            /\ SubSeq(summaryRet, 1, SummaryKeep + 1) = kept \o <<ELLIPSIS>>
            /\ (Len(summaryRet) = SummaryKeep + 1)
                  <=> (kept[SummaryKeep - 1] = HA /\ kept[SummaryKeep] = DA)
            /\ Len(summaryRet) = SummaryLimit
                  => SubSeq(summaryRet, SummaryLimit - 2, SummaryLimit) = <<HA, DA, ".">>

\* a truncated plot that gets the marker appended
C5_Witness ==
    /\ sumPc = "return"
    /\ Len(Cleaned(plotArg)) > SummaryLimit
    /\ Len(summaryRet) = SummaryLimit

\* C6: the summary returned is at most 360 units long, for every plot.
C6_SummaryAtMost360 ==
    sumPc = "return" => Len(summaryRet) <= SummaryLimit

\* C7: the extracted title is the same trimmed string whether the fragments
\* are reduced to the first one or concatenated, that is, extraction yields
\* the trimmed text of the whole title; the request fails with the
\* empty-title error exactly when that string is empty.
C7_TitleIsWholeTitle ==
    (PageRead /\ page.prop = "title") =>
        LET whole == Trim(JoinedPlainText(page.title))
        IN  /\ title = whole
            /\ (responses = <<Failure(MsgEmptyTitle)>>) <=> (whole = <<>>)

\* C8: when the provider answers Response "False" the request ends with 500
\* carrying the provider's Error when present and "OMDb not found"
\* otherwise; the GET was issued once and no update is issued.
C8_NotFoundTerminal ==
    (json.kind = "object" /\ json.Response = "False") =>
        /\ pc = "done"
        /\ responses =
             <<Failure(IF Truthy(json.Error) THEN json.Error.s ELSE MsgNotFound)>>
        /\ Apis = <<"notion.pages.retrieve", "fetch">>

C8_Witness ==
    /\ json.kind = "object"
    /\ json.Response = "False"
    /\ ~json.Error.def
    /\ pc = "done"

C10_DateOmitted ==
    (pc = "done" /\ Succeeded) =>
        LET iso == parseReleasedToISO(DataOf(json).released, tz)
        IN  IF iso.isNull
            THEN PGaebongil \notin Written /\ PGaebongil \notin Reported
            ELSE \E i \in 1..Len(wire) :
                    /\ wire[i].key = PGaebongil
                    /\ wire[i].value = [kind |-> "date", start |-> iso.ymd]

====
